---- MODULE Spec2Model ----
(***************************************************************************)
(* Model of events/validation.py: the event validator of the branding      *)
(* repository.  Two state machines share this module:                      *)
(*   Spec      a run of main(): every event directory goes through          *)
(*             make_event, then check_date_configuration runs;              *)
(*   SpecDays  one enumeration of the generator active_days(event), one     *)
(*             step per resumption of the generator.                        *)
(***************************************************************************)
EXTENDS Integers, Sequences, FiniteSets

VARIABLES
    \* ---- main() ----
    event_directories,  \* the directories found by parent.iterdir(), in order
    pc,                 \* position of the run of main()
    i,                  \* index of the directory the loop of main() is at
    events,             \* main(): the Events built so far
    output,             \* the lines printed to stdout, in order
    exit_code,          \* the exit status of the process
    collisions,         \* check_date_configuration: result of find_collisions
    cdc_result,         \* how check_date_configuration ended
    calls,              \* the cross-event functions invoked so far, in order
    \* ---- active_days(event) ----
    gen_event,          \* the argument of the generator
    gen_pc,             \* "start" | "yielded" | "done" | "raised" | "idle"
    state,              \* the local variable `state` of active_days
    yielded,            \* the days yielded so far, in order
    gen_error           \* the exception active_days raised, "" if none

main_vars == <<event_directories, pc, i, events, output, exit_code,
               collisions, cdc_result, calls>>
gen_vars  == <<gen_event, gen_pc, state, yielded, gen_error>>
vars      == <<event_directories, pc, i, events, output, exit_code,
               collisions, cdc_result, calls,
               gen_event, gen_pc, state, yielded, gen_error>>

----------------------------------------------------------------------------
(* Bounds of the model *)

\* main(): at most this many event directories
MaxDirs == 4
\* main(): the number of sample date ranges the directories of a listing
\* with several directories draw from
NumRanges == 4
\* the number of sample dates drawn for active_days and for a single
\* directory's start_date / end_date
NumSampleDates == 7

----------------------------------------------------------------------------
(* datetime.date *)

ARBITRARY_YEAR == 2020

\* Description too long above this many characters
MaxDescription == 2048

\* None, for an Optional[date]
NoDate == [year |-> 0, month |-> 0, day |-> 0]

MkDate(y, m, d) == [year |-> y, month |-> m, day |-> d]

IsLeap(y) == (y % 4 = 0) /\ ((y % 100 # 0) \/ (y % 400 = 0))

DaysInMonth(y, m) ==
    IF m = 2 THEN (IF IsLeap(y) THEN 29 ELSE 28)
    ELSE IF m \in {4, 6, 9, 11} THEN 30 ELSE 31

\* date + timedelta(days=1)
AddOneDay(d) ==
    IF d.day < DaysInMonth(d.year, d.month)
    THEN MkDate(d.year, d.month, d.day + 1)
    ELSE IF d.month < 12
         THEN MkDate(d.year, d.month + 1, 1)
         ELSE MkDate(d.year + 1, 1, 1)

\* date.replace(year=y); the day reached by AddOneDay from a day of the
\* (leap) reference year is never Feb 29 of another year
ReplaceYear(d, y) == [d EXCEPT !.year = y]

\* %B
MonthNames == <<"January", "February", "March", "April", "May", "June",
                "July", "August", "September", "October", "November",
                "December">>

\* an attribute of meta.md that is not there
AbsentAttr == [present |-> FALSE, month |-> "", day |-> 0]
\* an attribute holding the text "<month> <day>"
DateAttr(m, d) == [present |-> TRUE, month |-> m, day |-> d]

\* datetime.strptime(f"{value} {ARBITRARY_YEAR}", "%B %d %Y").date()
ParseDate(attr) ==
    LET ms == {m \in 1..12 : MonthNames[m] = attr.month}
    IN  IF ms = {} THEN [ok |-> FALSE, date |-> NoDate]
        ELSE LET m == CHOOSE x \in ms : TRUE
             IN  IF attr.day \in 1..DaysInMonth(ARBITRARY_YEAR, m)
                 THEN [ok |-> TRUE, date |-> MkDate(ARBITRARY_YEAR, m, attr.day)]
                 ELSE [ok |-> FALSE, date |-> NoDate]

\* day.strftime("%B %d")
FormatDay(d) == [month |-> MonthNames[d.month], day |-> d.day]

----------------------------------------------------------------------------
(* Event *)

Event(name, fallback, start_date, end_date, description) ==
    [name |-> name, fallback |-> fallback, start_date |-> start_date,
     end_date |-> end_date, description |-> description]

\* sample days of the reference year
SampleDateList ==
    <<MkDate(ARBITRARY_YEAR, 1, 1),   MkDate(ARBITRARY_YEAR, 12, 31),
      MkDate(ARBITRARY_YEAR, 1, 2),   MkDate(ARBITRARY_YEAR, 12, 30),
      MkDate(ARBITRARY_YEAR, 2, 29),  MkDate(ARBITRARY_YEAR, 2, 28),
      MkDate(ARBITRARY_YEAR, 3, 1),   MkDate(ARBITRARY_YEAR, 7, 10),
      MkDate(ARBITRARY_YEAR, 6, 30)>>

SampleDates ==
    {SampleDateList[k] : k \in 1..(IF NumSampleDates < Len(SampleDateList)
                                   THEN NumSampleDates
                                   ELSE Len(SampleDateList))}

----------------------------------------------------------------------------
(* active_days *)

\* mutant: the guard looks at start_date only
LacksStartDate(event) == event.start_date = NoDate

\* the guard of active_days: None in (event.start_date, event.end_date)
LacksDates(event) == NoDate \in {event.start_date, event.end_date}

\* mutant: the year is not set back after the step
NextStateNoWrap(s) == AddOneDay(s)

\* one turn of the loop after the yield, when it does not break:
\*   state += timedelta(days=1); state = state.replace(year=ARBITRARY_YEAR)
NextState(s) == ReplaceYear(AddOneDay(s), ARBITRARY_YEAR)

\* mutant: the loop ends a day early, leaving end_date out
AtEndExclusive(s, event) == NextState(s) = event.end_date

\* the test that ends the loop: state == event.end_date
AtEnd(s, event) == s = event.end_date

\* first next() on the generator: the guard, then state = event.start_date
\* and the first yield
GenStart ==
    /\ gen_pc = "start"
    /\ IF LacksDates(gen_event)
       THEN /\ gen_pc' = "raised"
            /\ gen_error' = "RuntimeError"
            /\ UNCHANGED <<state, yielded>>
       ELSE /\ state' = gen_event.start_date
            /\ yielded' = <<gen_event.start_date>>
            /\ gen_pc' = "yielded"
            /\ UNCHANGED gen_error
    /\ UNCHANGED gen_event
    /\ UNCHANGED main_vars

\* a later next(): the loop breaks (StopIteration) when state is the end date
GenBreak ==
    /\ gen_pc = "yielded"
    /\ AtEnd(state, gen_event)
    /\ gen_pc' = "done"
    /\ UNCHANGED <<gen_event, state, yielded, gen_error>>
    /\ UNCHANGED main_vars

\* a later next(): the loop advances one day and yields it
GenAdvance ==
    /\ gen_pc = "yielded"
    /\ ~AtEnd(state, gen_event)
    /\ state' = NextState(state)
    /\ yielded' = Append(yielded, NextState(state))
    /\ UNCHANGED <<gen_event, gen_pc, gen_error>>
    /\ UNCHANGED main_vars

\* the generator run to exhaustion, as `for day in active_days(event)` does
RECURSIVE Enumerate(_, _)
Enumerate(s, event) ==
    IF AtEnd(s, event) THEN <<s>>
    ELSE <<s>> \o Enumerate(NextState(s), event)

ActiveDays(event) ==
    IF LacksDates(event)
    THEN [raised |-> TRUE, days |-> <<>>]
    ELSE [raised |-> FALSE, days |-> Enumerate(event.start_date, event)]

----------------------------------------------------------------------------
(* make_event *)

NoEvent == Event("", FALSE, NoDate, NoDate, 0)
NoError == [kind |-> "", detail |-> {}]

Made(event) == [ok |-> TRUE, event |-> event, error |-> NoError]
\* raise Misconfiguration(...)
Misconfigured(kind, detail) ==
    [ok |-> FALSE, event |-> NoEvent, error |-> [kind |-> kind, detail |-> detail]]

\* the names of asset_requirements whose test is false
MissingAssets(dir) ==
    {a \in {"server_icons", "banners", "meta.md"} :
        \/ a = "server_icons" /\ ~dir.server_icons_is_dir
        \/ a = "banners" /\ ~dir.banners_is_dir
        \/ a = "meta.md" /\ ~dir.meta_is_file}

\* {"start_date", "end_date"} - attrs.keys()
MissingDates(dir) ==
    {a \in {"start_date", "end_date"} :
        \/ a = "start_date" /\ ~dir.start_date.present
        \/ a = "end_date" /\ ~dir.end_date.present}

\* mutant: the fallback event keeps the dates of meta.md
FallbackEventWithDates(name, dir) ==
    Event(name, TRUE, ParseDate(dir.start_date).date, ParseDate(dir.end_date).date,
          dir.description)

\* the return of the fallback branch of make_event
FallbackEvent(name, dir) ==
    Event(name, TRUE, NoDate, NoDate, dir.description)

\* make_event(name, from_dir): the Event, or the Misconfiguration raised
MakeEvent(name, dir) ==
    IF MissingAssets(dir) # {}
        THEN Misconfigured("Missing assets", MissingAssets(dir))
    ELSE IF dir.n_icons = 0
        THEN Misconfigured("No files in 'server_icons'", {})
    ELSE IF dir.n_banners = 0
        THEN Misconfigured("No files in the `banners` folder", {})
    ELSE IF ~dir.parse_ok
        THEN Misconfigured("Failed to parse 'meta.md'", {})
    ELSE IF dir.description = 0
        THEN Misconfigured("No description in 'meta.md'", {})
    ELSE IF ~(dir.description <= MaxDescription)
        THEN Misconfigured("Description too long", {})
    ELSE IF dir.fallback \notin {"absent", "true", "false"}
        THEN Misconfigured("Value under 'fallback' key must be a boolean", {})
    ELSE IF dir.fallback = "true"
        THEN Made(FallbackEvent(name, dir))
    ELSE IF MissingDates(dir) # {}
        THEN Misconfigured("Non-fallback event must have attributes", MissingDates(dir))
    ELSE IF ~ParseDate(dir.start_date).ok
        THEN Misconfigured("Attribute 'start_date' failed to parse", {})
    ELSE IF ~ParseDate(dir.end_date).ok
        THEN Misconfigured("Attribute 'end_date' failed to parse", {})
    ELSE Made(Event(name, FALSE, ParseDate(dir.start_date).date,
                    ParseDate(dir.end_date).date, dir.description))

----------------------------------------------------------------------------
(* find_collisions *)

\* day in schedule, the defaultdict(list); the dict is the sequence of its
\* items in insertion order
HasDay(schedule, day) == \E k \in 1..Len(schedule) : schedule[k].day = day

\* mutant: the event is put at the head of the day's list
PrependTo(schedule, day, event) ==
    [k \in 1..Len(schedule) |->
        IF schedule[k].day = day
        THEN [day |-> day, events |-> <<event>> \o schedule[k].events]
        ELSE schedule[k]]

\* schedule[day].append(event), for a day the dict holds
AppendTo(schedule, day, event) ==
    [k \in 1..Len(schedule) |->
        IF schedule[k].day = day
        THEN [day |-> day, events |-> Append(schedule[k].events, event)]
        ELSE schedule[k]]

\* schedule[day].append(event), for a day the dict does not hold: the
\* defaultdict first inserts the day with an empty list
InsertDay(schedule, day, event) ==
    Append(schedule, [day |-> day, events |-> <<event>>])

\* the inner loop: for day in active_days(event), from the k-th day on
RECURSIVE ScheduleDays(_, _, _, _)
ScheduleDays(schedule, event, days, k) ==
    IF k > Len(days) THEN schedule
    ELSE IF HasDay(schedule, days[k])
         THEN ScheduleDays(AppendTo(schedule, days[k], event), event, days, k + 1)
         ELSE ScheduleDays(InsertDay(schedule, days[k], event), event, days, k + 1)

\* the outer loop: for event in events; a RuntimeError of active_days ends it
RECURSIVE ScheduleEvents(_, _)
ScheduleEvents(sched, evs) ==
    IF evs = <<>> THEN [raised |-> FALSE, schedule |-> sched]
    ELSE IF ActiveDays(Head(evs)).raised
         THEN [raised |-> TRUE, schedule |-> sched]
         ELSE ScheduleEvents(ScheduleDays(sched, Head(evs), ActiveDays(Head(evs)).days, 1),
                             Tail(evs))

\* the filter of the returned dict: len(events) > 1
IsCollision(item) == Len(item.events) > 1

\* find_collisions(events): the dict as its items in insertion order
FindCollisions(evs) ==
    LET r == ScheduleEvents(<<>>, evs)
    IN  [raised |-> r.raised,
         mapping |-> IF r.raised THEN <<>> ELSE SelectSeq(r.schedule, IsCollision)]

\* the active_days calls find_collisions makes: one per event, up to and
\* including the first that raises
RECURSIVE ActiveDaysCalls(_)
ActiveDaysCalls(evs) ==
    IF evs = <<>> THEN <<>>
    ELSE IF ActiveDays(Head(evs)).raised THEN <<"active_days">>
         ELSE <<"active_days">> \o ActiveDaysCalls(Tail(evs))

----------------------------------------------------------------------------
(* check_date_configuration *)

NoResult == [kind |-> "none", message |-> "", names |-> <<>>, lines |-> <<>>]
Returned == [kind |-> "returned", message |-> "", names |-> <<>>, lines |-> <<>>]
\* raise Misconfiguration(...)
Failure(message, names, lines) ==
    [kind |-> "Misconfiguration", message |-> message, names |-> names, lines |-> lines]
\* the RuntimeError of active_days, which nothing catches
UsageError == [kind |-> "RuntimeError", message |-> "", names |-> <<>>, lines |-> <<>>]

IsFallback(event) == event.fallback
IsNotFallback(event) == ~event.fallback

\* mutant: the list is not filtered
FallbackEventsUnfiltered(evs) == evs

\* [event for event in events if event.fallback]
FallbackEvents(evs) == SelectSeq(evs, IsFallback)
\* [event for event in events if not event.fallback]
NonFallbackEvents(evs) == SelectSeq(evs, IsNotFallback)

\* ", ".join(event.name for event in ...): the names, in order
Names(evs) == [k \in 1..Len(evs) |-> evs[k].name]

\* mutant: two fallback events are let through
TooManyFallbacksAboveTwo(fallback_events) == Len(fallback_events) > 2

\* the test of the second raise: len(fallback_events) > 1
TooManyFallbacks(fallback_events) == Len(fallback_events) > 1

\* the report line of one item of collisions
ReportLine(item) ==
    [date_string |-> FormatDay(item.day), event_string |-> Names(item.events)]

\* for day, collision in collisions.items(): report_lines.append(...)
ReportLines(mapping) == [k \in 1..Len(mapping) |-> ReportLine(mapping[k])]

\* mutant: find_collisions is called before the fallback events are counted
CheckFallbackAfterCollisions ==
    /\ pc = "check_fallback"
    /\ calls' = calls \o <<"find_collisions">>
                      \o ActiveDaysCalls(NonFallbackEvents(events))
    /\ collisions' = FindCollisions(NonFallbackEvents(events)).mapping
    /\ LET fallback_events == FallbackEvents(events)
       IN  IF fallback_events = <<>>
           THEN /\ cdc_result' = Failure("There is no fallback event", <<>>, <<>>)
                /\ pc' = "cdc_end"
           ELSE IF TooManyFallbacks(fallback_events)
           THEN /\ cdc_result' = Failure("There are multiple fallback events",
                                         Names(fallback_events), <<>>)
                /\ pc' = "cdc_end"
           ELSE IF collisions' = <<>>
           THEN cdc_result' = Returned /\ pc' = "cdc_end"
           ELSE pc' = "report" /\ UNCHANGED cdc_result
    /\ UNCHANGED <<event_directories, i, events, output, exit_code>>
    /\ UNCHANGED gen_vars

\* lines 173-180: the fallback events are counted
CheckFallback ==
    /\ pc = "check_fallback"
    /\ LET fallback_events == FallbackEvents(events)
       IN  IF fallback_events = <<>>
           THEN /\ cdc_result' = Failure("There is no fallback event", <<>>, <<>>)
                /\ pc' = "cdc_end"
           ELSE IF TooManyFallbacks(fallback_events)
           THEN /\ cdc_result' = Failure("There are multiple fallback events",
                                         Names(fallback_events), <<>>)
                /\ pc' = "cdc_end"
           ELSE /\ pc' = "find_collisions"
                /\ UNCHANGED cdc_result
    /\ UNCHANGED <<event_directories, i, events, output, exit_code, collisions, calls>>
    /\ UNCHANGED gen_vars

\* lines 182-186: find_collisions on the non-fallback events
CheckCollisions ==
    /\ pc = "find_collisions"
    /\ LET non_fallback_events == NonFallbackEvents(events)
           found == FindCollisions(non_fallback_events)
       IN  /\ calls' = calls \o <<"find_collisions">> \o ActiveDaysCalls(non_fallback_events)
           /\ collisions' = found.mapping
           /\ IF found.raised
              THEN cdc_result' = UsageError /\ pc' = "cdc_end"
              ELSE IF found.mapping = <<>>
              THEN cdc_result' = Returned /\ pc' = "cdc_end"
              ELSE pc' = "report" /\ UNCHANGED cdc_result
    /\ UNCHANGED <<event_directories, i, events, output, exit_code>>
    /\ UNCHANGED gen_vars

\* lines 188-197: the collision report is built and raised
CheckReport ==
    /\ pc = "report"
    /\ cdc_result' = Failure("Event collision detected", <<>>, ReportLines(collisions))
    /\ pc' = "cdc_end"
    /\ UNCHANGED <<event_directories, i, events, output, exit_code, collisions, calls>>
    /\ UNCHANGED gen_vars

----------------------------------------------------------------------------
(* main *)

DirNames == <<"a", "b", "c", "d", "e", "f">>

Line(status, name, message) == [status |-> status, name |-> name, message |-> message]

\* lines 216-224: one turn of the loop over event_directories
MainValidate ==
    /\ pc = "validate"
    /\ i <= Len(event_directories)
    /\ LET event_name == DirNames[i]
           made == MakeEvent(event_name, event_directories[i])
       IN  IF made.ok
           THEN /\ output' = Append(output, Line("PASS", event_name, NoError))
                /\ events' = Append(events, made.event)
           ELSE /\ output' = Append(output, Line("FAIL", event_name, made.error))
                /\ UNCHANGED events
    /\ i' = i + 1
    /\ UNCHANGED <<event_directories, pc, exit_code, collisions, cdc_result, calls>>
    /\ UNCHANGED gen_vars

\* mutant: the run stops only when no event passed
NoEventPassed == events = <<>>

\* the test of line 226: len(events) != len(event_directories)
SomeEventFailed == Len(events) # Len(event_directories)

\* lines 226-231: after the loop, stop unless every event passed, and
\* otherwise call check_date_configuration
MainGate ==
    /\ pc = "validate"
    /\ i > Len(event_directories)
    /\ IF SomeEventFailed
       THEN /\ output' = Append(output, Line("INFO", "",
                   [kind |-> "Dates will not be verified until all events pass validation!",
                    detail |-> {}]))
            /\ exit_code' = 1
            /\ pc' = "exit"
            /\ UNCHANGED calls
       ELSE /\ calls' = Append(calls, "check_date_configuration")
            /\ pc' = "check_fallback"
            /\ UNCHANGED <<output, exit_code>>
    /\ UNCHANGED <<event_directories, i, events, collisions, cdc_result>>
    /\ UNCHANGED gen_vars

\* lines 230-236: check_date_configuration has returned or raised
MainFinish ==
    /\ pc = "cdc_end"
    /\ IF cdc_result.kind = "Misconfiguration"
       THEN /\ output' = Append(output, Line("FAIL", "", cdc_result))
            /\ exit_code' = 1
       ELSE IF cdc_result.kind = "RuntimeError"
       THEN /\ exit_code' = 1
            /\ UNCHANGED output
       ELSE /\ output' = Append(output, Line("PASS", "",
                   [kind |-> "All events passed validation", detail |-> {Len(events)}]))
            /\ UNCHANGED exit_code
    /\ pc' = "exit"
    /\ UNCHANGED <<event_directories, i, events, collisions, cdc_result, calls>>
    /\ UNCHANGED gen_vars

----------------------------------------------------------------------------
(* Inputs of main: what parent.iterdir() finds *)

\* (is server_icons a directory, is banners one, is meta.md a file, files in
\* server_icons, files in banners, does meta.md parse, length of the
\* description, value under fallback, start_date, end_date)
Dir(icd, bnd, mtf, nic, nbn, prs, dsc, fbk, std, end) ==
    [server_icons_is_dir |-> icd, banners_is_dir |-> bnd,
     meta_is_file |-> mtf, n_icons |-> nic, n_banners |-> nbn,
     parse_ok |-> prs, description |-> dsc, fallback |-> fbk,
     start_date |-> std, end_date |-> end]

\* a directory with its assets and description in order
GoodDir(fallback, start_date, end_date) ==
    Dir(TRUE, TRUE, TRUE, 1, 1, TRUE, 1, fallback, start_date, end_date)

Jan1 == DateAttr("January", 1)
Jan5 == DateAttr("January", 5)

\* directories whose assets or description are at fault
DefectDirs ==
    {Dir(a, b, c, 1, 1, TRUE, 1, "absent", Jan1, Jan5) :
        a \in BOOLEAN, b \in BOOLEAN, c \in BOOLEAN}
    \cup {Dir(TRUE, TRUE, TRUE, n, m, TRUE, 1, "absent", Jan1, Jan5) :
        n \in 0..1, m \in 0..1}
    \cup {Dir(TRUE, TRUE, TRUE, 1, 1, FALSE, 1, "absent", Jan1, Jan5)}
    \cup {Dir(TRUE, TRUE, TRUE, 1, 1, TRUE, n, "absent", Jan1, Jan5) :
        n \in {0, MaxDescription, MaxDescription + 1}}

\* the values of start_date and end_date in meta.md: absent, a sample
\* date, a day the month does not have, a month that does not exist
DateAttrs ==
    {AbsentAttr, DateAttr("February", 30), DateAttr("Smarch", 1)}
    \cup {DateAttr(MonthNames[d.month], d.day) : d \in SampleDates}

\* the value under 'fallback': absent, true, false, or not a boolean
FallbackAttrs == {"absent", "true", "false", "other"}

MetaDirs ==
    {GoodDir(f, s, e) : f \in FallbackAttrs, s \in DateAttrs, e \in DateAttrs}

SampleRangeList ==
    <<<<DateAttr("December", 30), DateAttr("January", 2)>>,
      <<DateAttr("January", 1),   DateAttr("January", 10)>>,
      <<DateAttr("January", 5),   DateAttr("January", 20)>>,
      <<DateAttr("January", 1),   DateAttr("January", 5)>>,
      <<DateAttr("February", 29), DateAttr("February", 29)>>,
      <<DateAttr("January", 10),  DateAttr("January", 15)>>,
      <<DateAttr("December", 20), DateAttr("January", 5)>>>>

SampleRanges ==
    {SampleRangeList[k] : k \in 1..(IF NumRanges < Len(SampleRangeList)
                                    THEN NumRanges
                                    ELSE Len(SampleRangeList))}

\* the directories of a listing with several directories: the fallback
\* event, an event without meta.md, and an event per sample range
CorePool ==
    {GoodDir("true", AbsentAttr, AbsentAttr),
     Dir(TRUE, TRUE, FALSE, 1, 1, TRUE, 1, "absent", Jan1, Jan5)}
    \cup {GoodDir("absent", r[1], r[2]) : r \in SampleRanges}

Listings ==
    {<<d>> : d \in DefectDirs \cup MetaDirs}
    \cup UNION {[1..n -> CorePool] :
                  n \in 0..(IF MaxDirs < Len(DirNames) THEN MaxDirs ELSE Len(DirNames))}

GenIdle ==
    /\ gen_event = NoEvent
    /\ gen_pc = "idle"
    /\ state = NoDate
    /\ yielded = <<>>
    /\ gen_error = ""

Init ==
    /\ event_directories \in Listings
    /\ pc = "validate"
    /\ i = 1
    /\ events = <<>>
    /\ output = <<>>
    /\ exit_code = 0
    /\ collisions = <<>>
    /\ cdc_result = NoResult
    /\ calls = <<>>
    /\ GenIdle

Next ==
    \/ MainValidate
    \/ MainGate
    \/ CheckFallback
    \/ CheckCollisions
    \/ CheckReport
    \/ MainFinish

Spec == Init /\ [][Next]_vars

----------------------------------------------------------------------------
(* Inputs of active_days *)

\* the Events handed to active_days: the fallback event, and non-fallback
\* events with each date a sample date or None
GenEvents ==
    {Event("fallback", TRUE, NoDate, NoDate, 1)}
    \cup {Event("event", FALSE, s, e, 1) :
            s \in SampleDates \cup {NoDate}, e \in SampleDates \cup {NoDate}}

MainIdle ==
    /\ event_directories = <<>>
    /\ pc = "idle"
    /\ i = 1
    /\ events = <<>>
    /\ output = <<>>
    /\ exit_code = 0
    /\ collisions = <<>>
    /\ cdc_result = NoResult
    /\ calls = <<>>

InitDays ==
    /\ gen_event \in GenEvents
    /\ gen_pc = "start"
    /\ state = NoDate
    /\ yielded = <<>>
    /\ gen_error = ""
    /\ MainIdle

NextDays == GenStart \/ GenBreak \/ GenAdvance

\* the consumer of the generator (the for loop of find_collisions) resumes
\* it until it is exhausted
SpecDays == InitDays /\ [][NextDays]_vars /\ WF_vars(NextDays)

----------------------------------------------------------------------------
(* The calendar of the reference year, stated without the date arithmetic  *)
(* of the program                                                          *)

\* the lengths of the months of the leap year 2020
MonthLengths == <<31, 29, 31, 30, 31, 30, 31, 31, 30, 31, 30, 31>>

\* the days of the reference year
AllDates ==
    {MkDate(ARBITRARY_YEAR, md[1], md[2]) :
        md \in {x \in (1..12) \X (1..31) : x[2] <= MonthLengths[x[1]]}}

RECURSIVE DaysBefore(_)
DaysBefore(m) == IF m <= 1 THEN 0 ELSE DaysBefore(m - 1) + MonthLengths[m - 1]

\* the days of the year before each month
DaysBeforeMonth == [m \in 1..12 |-> DaysBefore(m)]

\* the number of a day in the reference year, Jan 1 being 1
Ordinal(d) == DaysBeforeMonth[d.month] + d.day

YearLength == DaysBefore(12) + MonthLengths[12]

\* the day numbered o lies in the inclusive cyclic range from the day
\* numbered first to the day numbered last
InCyclicRange(o, first, last) ==
    IF first <= last
    THEN first <= o /\ o <= last
    ELSE first <= o \/ o <= last

\* the day lies in the active range of the event
Covers(event, d) ==
    InCyclicRange(Ordinal(d), Ordinal(event.start_date), Ordinal(event.end_date))

\* the event has no start date or no end date
DateAbsent(event) == event.start_date = NoDate \/ event.end_date = NoDate

\* the elements of a sequence
Range(seq) == {seq[k] : k \in 1..Len(seq)}

----------------------------------------------------------------------------
(* Properties of active_days, under SpecDays *)

\* C1: for a non-fallback event with both dates in the reference year,
\* active_days yields the inclusive cyclic range from start_date to
\* end_date: it starts at start_date, every day is the calendar successor
\* of the one before (Dec 31 is followed by Jan 1 of the reference year), no
\* day repeats, every day lies in the reference year, and once the
\* enumeration has ended its last day is end_date and the number of days is
\* ((end - start) mod 366) + 1.
C1_InclusiveCyclicRange ==
    (~DateAbsent(gen_event) /\ gen_pc # "start") =>
        LET n == Len(yielded)
            s == gen_event.start_date
            e == gen_event.end_date
        IN  /\ YearLength = 366
            /\ gen_pc \in {"yielded", "done"}
            /\ n >= 1
            /\ yielded[1] = s
            /\ \A k \in 1..n : yielded[k] \in AllDates
            /\ \A k \in 2..n :
                 Ordinal(yielded[k]) = (Ordinal(yielded[k - 1]) % 366) + 1
            /\ Cardinality(Range(yielded)) = n
            /\ gen_pc = "done" =>
                 /\ yielded[n] = e
                 /\ n = ((Ordinal(e) - Ordinal(s)) % 366) + 1
                 /\ (s = e => n = 1)
                 /\ (Ordinal(s) < Ordinal(e) => n = Ordinal(e) - Ordinal(s) + 1)

\* the range Dec 30 - Jan 2 has been enumerated: four days across year-end
C1_WrapEnumerated ==
    /\ gen_pc = "done"
    /\ ~gen_event.fallback
    /\ yielded = <<MkDate(ARBITRARY_YEAR, 12, 30), MkDate(ARBITRARY_YEAR, 12, 31),
                   MkDate(ARBITRARY_YEAR, 1, 1),   MkDate(ARBITRARY_YEAR, 1, 2)>>

\* the event's range is the whole year: end_date is the day cyclically
\* before start_date
FullYear(event) ==
    Ordinal(event.start_date) = (Ordinal(event.end_date) % YearLength) + 1

\* C2: the enumeration of active_days eventually stops, having yielded at
\* most 366 days; for a full-year range it has then yielded each of the 366
\* days of the reference year exactly once.
C2_StopsWithinAYear ==
    /\ [](Len(yielded) <= 366)
    /\ []((gen_pc = "done" /\ FullYear(gen_event)) =>
            (Len(yielded) = 366 /\ Range(yielded) = AllDates))
    /\ <>(gen_pc \in {"done", "raised"})

\* the full-year range Jan 2 - Jan 1 has been enumerated to its end
C2_FullYearEnumerated ==
    /\ gen_pc = "done"
    /\ gen_event.start_date = MkDate(ARBITRARY_YEAR, 1, 2)
    /\ gen_event.end_date = MkDate(ARBITRARY_YEAR, 1, 1)
    /\ Len(yielded) = 366

\* C9: for an event that lacks start_date or end_date (any fallback event
\* among them) active_days fails with a RuntimeError, which is not a
\* Misconfiguration, and yields no day.
C9_UsageErrorWithoutDates ==
    (DateAbsent(gen_event) /\ gen_pc # "start") =>
        /\ gen_pc = "raised"
        /\ gen_error = "RuntimeError"
        /\ gen_error # "Misconfiguration"
        /\ yielded = <<>>

\* active_days has been started on the fallback event and has raised
C9_FallbackRaised ==
    /\ gen_pc = "raised"
    /\ gen_event.fallback
    /\ gen_event.start_date = NoDate

----------------------------------------------------------------------------
(* Properties of find_collisions and check_date_configuration, under Spec *)

\* the events of main that are not the fallback event and are active on day
\* d, in the order of the list
Contenders(d) ==
    SelectSeq(events, LAMBDA e : ~e.fallback /\ ~DateAbsent(e) /\ Covers(e, d))

\* the numbers of the days in the active range of two or more non-fallback
\* events
CollidingOrdinals ==
    LET dated == {k \in 1..Len(events) : ~events[k].fallback /\ ~DateAbsent(events[k])}
        first == [k \in dated |-> Ordinal(events[k].start_date)]
        last  == [k \in dated |-> Ordinal(events[k].end_date)]
    IN  {o \in 1..YearLength :
            \E j \in dated : \E k \in dated :
                /\ j < k
                /\ InCyclicRange(o, first[j], last[j])
                /\ InCyclicRange(o, first[k], last[k])}

\* the days in the active range of two or more non-fallback events
CollidingDays ==
    LET colliding == CollidingOrdinals
    IN  {d \in AllDates : Ordinal(d) \in colliding}

\* the number of events flagged fallback
FallbackCount == Cardinality({k \in 1..Len(events) : events[k].fallback})

\* the names of the events flagged fallback, in the order of the list
FallbackNames ==
    LET fb == SelectSeq(events, LAMBDA e : e.fallback)
    IN  [k \in 1..Len(fb) |-> fb[k].name]

\* the number of the month a report line names
MonthNumber(name) == CHOOSE m \in 1..12 : MonthNames[m] = name

\* the day a report line is about
LineDay(line) ==
    MkDate(ARBITRARY_YEAR, MonthNumber(line.date_string.month), line.date_string.day)

\* find_collisions has returned
CollisionsFound == pc \in {"report", "cdc_end", "exit"} /\ "find_collisions" \in Range(calls)

\* check_date_configuration has ended
DateCheckEnded == pc \in {"cdc_end", "exit"} /\ cdc_result.kind # "none"

\* check_date_configuration failed in its fallback check
FallbackFailure ==
    /\ cdc_result.kind = "Misconfiguration"
    /\ cdc_result.message \in {"There is no fallback event",
                               "There are multiple fallback events"}

\* check_date_configuration failed with a collision report
CollisionFailure ==
    /\ cdc_result.kind = "Misconfiguration"
    /\ cdc_result.message = "Event collision detected"

\* C3: the mapping find_collisions returns has as its keys exactly the days
\* in the active range of two or more of the events, each key once, and
\* maps each such day to the events whose range contains it, each once, in
\* the order of the input list.
C3_CollisionsExact ==
    CollisionsFound =>
        /\ {collisions[k].day : k \in 1..Len(collisions)} = CollidingDays
        /\ Len(collisions) = Cardinality(CollidingDays)
        /\ \A k \in 1..Len(collisions) :
             collisions[k].events = Contenders(collisions[k].day)

\* find_collisions has found a day three events contend for, and a range
\* that wraps around year-end is among the colliding ones
C3_ThreeContenders ==
    /\ CollisionsFound
    /\ \E k \in 1..Len(collisions) : Len(collisions[k].events) = 3
    /\ \E k \in 1..Len(collisions) : \E j \in 1..Len(collisions[k].events) :
         Ordinal(collisions[k].events[j].start_date)
            > Ordinal(collisions[k].events[j].end_date)

\* C4: a collision report holds one line per colliding day, and its lines
\* are in calendar order, by month and then by day.
C4_ReportSorted ==
    (DateCheckEnded /\ CollisionFailure) =>
        /\ Len(cdc_result.lines) = Cardinality(CollidingDays)
        /\ {LineDay(cdc_result.lines[k]) : k \in 1..Len(cdc_result.lines)} = CollidingDays
        /\ \A k \in 1..(Len(cdc_result.lines) - 1) :
             Ordinal(LineDay(cdc_result.lines[k]))
                < Ordinal(LineDay(cdc_result.lines[k + 1]))

\* C5: check_date_configuration returns, without a report, exactly when
\* there is one fallback event and no day is in the range of two or more
\* non-fallback events; otherwise it fails with Misconfiguration, and a
\* collision failure names every colliding day with all the events that
\* contend for it.
C5_SucceedsIffConsistent ==
    DateCheckEnded =>
        /\ (cdc_result.kind = "returned")
              <=> (FallbackCount = 1 /\ CollidingDays = {})
        /\ cdc_result.kind = "returned" => cdc_result.lines = <<>>
        /\ cdc_result.kind # "returned" => cdc_result.kind = "Misconfiguration"
        /\ (FallbackCount = 1 /\ CollidingDays # {}) =>
              /\ CollisionFailure
              /\ {LineDay(cdc_result.lines[k]) : k \in 1..Len(cdc_result.lines)}
                    = CollidingDays
              /\ \A k \in 1..Len(cdc_result.lines) :
                    Range(cdc_result.lines[k].event_string)
                       = {e.name : e \in Range(Contenders(LineDay(cdc_result.lines[k])))}

\* check_date_configuration has failed with a report of several colliding
\* days, one of them contended for by three events
C5_CollisionReported ==
    /\ DateCheckEnded
    /\ CollisionFailure
    /\ Len(cdc_result.lines) >= 2
    /\ \E k \in 1..Len(cdc_result.lines) : Len(cdc_result.lines[k].event_string) = 3

\* the fallback check of check_date_configuration has been made
FallbackChecked ==
    /\ "check_date_configuration" \in Range(calls)
    /\ pc \in {"find_collisions", "report", "cdc_end", "exit"}

\* C6: the fallback check fails whenever the number of fallback events is
\* not 1: with none, the failure says there is no fallback event; with two
\* or more, it lists the names of the fallback events, each once and in
\* input order, and no other name; with exactly one, it does not fail.
C6_FallbackCardinality ==
    FallbackChecked =>
        /\ FallbackCount = 0 =>
              /\ cdc_result.kind = "Misconfiguration"
              /\ cdc_result.message = "There is no fallback event"
        /\ FallbackCount >= 2 =>
              /\ cdc_result.kind = "Misconfiguration"
              /\ cdc_result.message = "There are multiple fallback events"
              /\ cdc_result.names = FallbackNames
              /\ Cardinality(Range(cdc_result.names)) = Len(cdc_result.names)
        /\ FallbackCount = 1 => ~FallbackFailure

\* the fallback check has failed on two fallback events in a list that
\* also holds a non-fallback event
C6_MultipleFallbacksNamed ==
    /\ FallbackChecked
    /\ FallbackFailure
    /\ Len(cdc_result.names) = 2
    /\ \E k \in 1..Len(events) : ~events[k].fallback

\* C7: the fallback check comes before collision detection: find_collisions
\* and active_days are invoked only after a fallback check that passed, and
\* when the fallback check fails neither is invoked and no collision is
\* reported, even when non-fallback events collide.
C7_FallbackCheckFirst ==
    /\ "find_collisions" \in Range(calls) =>
          /\ FallbackCount = 1
          /\ calls[1] = "check_date_configuration"
          /\ pc \notin {"validate", "check_fallback"}
    /\ "active_days" \in Range(calls) => "find_collisions" \in Range(calls)
    /\ FallbackFailure =>
          /\ "find_collisions" \notin Range(calls)
          /\ "active_days" \notin Range(calls)
          /\ collisions = <<>>
          /\ cdc_result.lines = <<>>
    /\ FallbackCount # 1 => "find_collisions" \notin Range(calls)

\* the fallback check has failed on a list whose non-fallback events collide
C7_FailedDespiteCollisions ==
    /\ pc = "exit"
    /\ FallbackFailure
    /\ CollidingDays # {}

----------------------------------------------------------------------------
(* Properties of make_event and main, under Spec *)

\* the directories the loop of main has been through
Validated == 1..(i - 1)

\* the loop of main printed [PASS] for the k-th directory
Passed(k) == output[k].status = "PASS" /\ output[k].name = DirNames[k]

\* the loop of main printed [FAIL] for the k-th directory
Failed(k) == output[k].status = "FAIL" /\ output[k].name = DirNames[k]

\* the Events make_event returned for the k-th directory
EventsOf(k) == {e \in Range(events) : e.name = DirNames[k]}

\* assets, meta.md and description of the directory are in order
AssetsInOrder(dir) ==
    /\ dir.server_icons_is_dir /\ dir.banners_is_dir /\ dir.meta_is_file
    /\ dir.n_icons > 0 /\ dir.n_banners > 0 /\ dir.parse_ok
    /\ dir.description \in 1..MaxDescription

\* every Event has no dates if it is the fallback and both dates if not
EventsWellFormed ==
    \A e \in Range(events) :
        /\ e.fallback => (e.start_date = NoDate /\ e.end_date = NoDate)
        /\ ~e.fallback => (e.start_date \in AllDates /\ e.end_date \in AllDates)

\* C8, as stated: make_event fails when fallback is true and a start or end
\* date is present, fails when fallback is false and a date is missing, and
\* every Event it returns has no dates if fallback and both dates if not.
C8_FailsOnFallbackWithDates ==
    /\ EventsWellFormed
    /\ \A k \in Validated :
         LET dir == event_directories[k]
         IN  /\ Passed(k) \/ Failed(k)
             /\ (dir.fallback = "true"
                   /\ (dir.start_date.present \/ dir.end_date.present))
                  => Failed(k)
             /\ (dir.fallback \in {"absent", "false"}
                   /\ ~(dir.start_date.present /\ dir.end_date.present))
                  => Failed(k)

\* C8, amended: make_event fails with Misconfiguration when fallback is
\* false or absent and a date is missing; when fallback is true it does not
\* fail on account of the dates: dates present in meta.md are ignored and
\* the Event is returned with both dates absent.  It returns an Event only
\* for a fallback or for a directory with both dates, and every Event it
\* returns has no dates if fallback and both dates if not.
C8_FallbackIgnoresDates ==
    /\ EventsWellFormed
    /\ \A k \in Validated :
         LET dir == event_directories[k]
         IN  /\ Passed(k) \/ Failed(k)
             /\ Failed(k) => (output[k].message.kind # "" /\ EventsOf(k) = {})
             /\ (dir.fallback = "true" /\ AssetsInOrder(dir)) =>
                  /\ Passed(k)
                  /\ EventsOf(k) = {Event(DirNames[k], TRUE, NoDate, NoDate,
                                          dir.description)}
             /\ (dir.fallback \in {"absent", "false"}
                   /\ ~(dir.start_date.present /\ dir.end_date.present))
                  => Failed(k)
             /\ Passed(k) =>
                  /\ Cardinality(EventsOf(k)) = 1
                  /\ \/ dir.fallback = "true"
                     \/ /\ dir.fallback \in {"absent", "false"}
                        /\ dir.start_date.present /\ dir.end_date.present

\* make_event has returned an Event for a fallback directory whose meta.md
\* holds a start date and an end date
C8_FallbackWithDatesPassed ==
    \E k \in Validated :
        /\ event_directories[k].fallback = "true"
        /\ event_directories[k].start_date.present
        /\ event_directories[k].end_date.present
        /\ ParseDate(event_directories[k].start_date).ok
        /\ Passed(k)

\* C10: check_date_configuration is invoked only after every directory has
\* been validated and only if each yielded an Event; if a directory fails,
\* the others are still validated and reported, the date check is never run
\* and the exit code is 1; the exit code is 0 only if every directory passed
\* and the date check succeeded.
C10_DateCheckOnlyAfterAllPass ==
    /\ "check_date_configuration" \in Range(calls) =>
          /\ i > Len(event_directories)
          /\ Len(events) = Len(event_directories)
          /\ \A k \in 1..Len(event_directories) :
                Passed(k) /\ MakeEvent(DirNames[k], event_directories[k]).ok
    /\ pc # "validate" =>
          /\ Len(output) >= Len(event_directories)
          /\ \A k \in 1..Len(event_directories) :
                /\ Passed(k) <=> MakeEvent(DirNames[k], event_directories[k]).ok
                /\ Failed(k) <=> ~MakeEvent(DirNames[k], event_directories[k]).ok
    /\ (pc = "exit"
          /\ \E k \in 1..Len(event_directories) :
                ~MakeEvent(DirNames[k], event_directories[k]).ok) =>
          /\ exit_code = 1
          /\ calls = <<>>
          /\ cdc_result.kind = "none"
          /\ Len(output) = Len(event_directories) + 1
    /\ (pc = "exit" /\ exit_code = 0) =>
          /\ \A k \in 1..Len(event_directories) : Passed(k)
          /\ cdc_result.kind = "returned"
    /\ (pc = "exit" /\ cdc_result.kind \in {"Misconfiguration", "RuntimeError"}) =>
          exit_code = 1
    /\ exit_code \in {0, 1}

\* a run has ended in which the first directory failed and later ones were
\* still validated, one of them passing
C10_FailedRunFinished ==
    /\ pc = "exit"
    /\ Len(event_directories) >= 3
    /\ Failed(1)
    /\ \E k \in 2..Len(event_directories) : Passed(k)
    /\ \E k \in 2..Len(event_directories) : Failed(k)

====
